---- MODULE Spec2Model ----
(***************************************************************************)
(* Model of scripts/import_leetcode_data.py: the company-mapping fetcher,  *)
(* the markdown title extractor, the enrichment/normalisation pass and the *)
(* sequential driver main().                                               *)
(*                                                                         *)
(* A Python str is a sequence of one-character strings; None, a missing    *)
(* dict key and a raised exception are explicit values.                    *)
(***************************************************************************)
EXTENDS Integers, Sequences, FiniteSets, TLC

VARIABLES
    pc,                 \* position of the run (main and its callees)
    problems,           \* main: the catalog returned by create_sample_leetcode_problems
    listing,            \* download_company_mappings: outcome of the listing request
    file_idx,           \* download_company_mappings: index of the next file_info
    company_mappings,   \* download_company_mappings: the local dict being built
    mappings,           \* main: the dict download_company_mappings returned
    processed_problems, \* main: what process_leetcode_data returned
    output_file,        \* the file save_processed_data wrote (NoFile before)
    summary_done,       \* generate_summary has run
    banner,             \* the completion banner was printed
    exit_code,          \* NotExited, or the process exit code
    content,            \* extract_problems_from_markdown: its argument
    extracted,          \* extract_problems_from_markdown: its outcome
    classified          \* classify_problem_by_company: its outcome

vars == <<pc, problems, listing, file_idx, company_mappings, mappings,
          processed_problems, output_file, summary_done, banner, exit_code,
          content, extracted, classified>>

(***************************************************************************)
(* Bounds of the model.                                                    *)
(***************************************************************************)
MaxLines == 2        \* lines of a multi-line markdown text
MaxCands == 2        \* candidate titles one company maps to
MaxFiles == 2        \* entries of the remote listing
MaxExamples == 4     \* examples of an input record
MaxConstraints == 6  \* constraints of an input record

(***************************************************************************)
(* Python str primitives.                                                  *)
(***************************************************************************)
UpperLetters == <<"A","B","C","D","E","F","G","H","I","J","K","L","M",
                  "N","O","P","Q","R","S","T","U","V","W","X","Y","Z">>
LowerLetters == <<"a","b","c","d","e","f","g","h","i","j","k","l","m",
                  "n","o","p","q","r","s","t","u","v","w","x","y","z">>
Whitespace == {" ", "\t", "\n", "\r"}

IsUpper(c) == \E i \in 1..26 : UpperLetters[i] = c
IsLower(c) == \E i \in 1..26 : LowerLetters[i] = c
IsLetter(c) == IsUpper(c) \/ IsLower(c)
LowerChar(c) == IF IsUpper(c) THEN LowerLetters[CHOOSE i \in 1..26 : UpperLetters[i] = c] ELSE c
UpperChar(c) == IF IsLower(c) THEN UpperLetters[CHOOSE i \in 1..26 : LowerLetters[i] = c] ELSE c

\* str.lower()
Lower(s) == [i \in 1..Len(s) |-> LowerChar(s[i])]

\* str.title(): a letter is upper-cased unless the character before it is a letter
StrTitle(s) ==
    [i \in 1..Len(s) |->
        IF ~IsLetter(s[i]) THEN s[i]
        ELSE IF i > 1 /\ IsLetter(s[i-1]) THEN LowerChar(s[i]) ELSE UpperChar(s[i])]

\* str.strip()
Strip(s) ==
    LET keep == {i \in 1..Len(s) : s[i] \notin Whitespace}
    IN  IF keep = {} THEN <<>>
        ELSE LET lo == CHOOSE i \in keep : \A j \in keep : i <= j
                 hi == CHOOSE i \in keep : \A j \in keep : i >= j
             IN  SubSeq(s, lo, hi)

\* str.startswith(prefix), str.endswith(suffix)
StartsWith(s, prefix) ==
    Len(prefix) <= Len(s) /\ SubSeq(s, 1, Len(prefix)) = prefix
EndsWith(s, suffix) ==
    Len(suffix) <= Len(s) /\ SubSeq(s, Len(s) - Len(suffix) + 1, Len(s)) = suffix

\* a in b, for two str
PyIn(a, b) ==
    \E i \in 0..(Len(b) - Len(a)) : SubSeq(b, i + 1, i + Len(a)) = a

\* str.find(sub): the 0-based index of the first occurrence, -1 when absent
Find(s, sub) ==
    LET at == {i \in 0..(Len(s) - Len(sub)) : SubSeq(s, i + 1, i + Len(sub)) = sub}
    IN  IF at = {} THEN -1 ELSE CHOOSE i \in at : \A j \in at : i <= j

\* s[start:end] with 0 <= start
Slice(s, start, end) == SubSeq(s, start + 1, end)

\* str.split(sep): every occurrence of sep separates two parts
RECURSIVE Split(_, _)
Split(s, sep) ==
    LET at == Find(s, sep)
    IN  IF at = -1 THEN <<s>>
        ELSE <<Slice(s, 0, at)>> \o Split(Slice(s, at + Len(sep), Len(s)), sep)

\* str.split(sep, 1): at most one split, at the first occurrence of sep
SplitOnce(s, sep) ==
    LET at == Find(s, sep)
    IN  IF at = -1 THEN <<s>>
        ELSE <<Slice(s, 0, at), Slice(s, at + Len(sep), Len(s))>>

\* str.replace(old, new): the occurrences of old, left to right, not overlapping
RECURSIVE Replace(_, _, _)
Replace(s, old, new) ==
    LET at == Find(s, old)
    IN  IF at = -1 THEN s
        ELSE Slice(s, 0, at) \o new \o Replace(Slice(s, at + Len(old), Len(s)), old, new)

(***************************************************************************)
(* extract_problems_from_markdown                                          *)
(***************************************************************************)
\* the prefixes of the candidate test
CandidatePrefixes ==
    { <<"-"," ","[">>, <<"*"," ","[">>, <<"1","."," ">>, <<"2","."," ">>, <<"3","."," ">> }

\* the prefixes of the numbered-list branch
NumberedPrefixes ==
    { <<d, ".", " ">> : d \in {"1","2","3","4","5","6","7","8","9"} }

\* the length filter on an extracted title
KeepTitle(t) == IF t # <<>> /\ Len(t) > 3 THEN <<t>> ELSE <<>>

\* the body of the loop for one line: [raised, titles], titles the list of
\* the titles the line appends (none or one)
ExtractLine(raw) ==
    LET line == Strip(raw)
    IN  IF ~(\E p \in CandidatePrefixes : StartsWith(line, p))
        THEN [raised |-> FALSE, titles |-> <<>>]
        ELSE IF PyIn(<<"[">>, line) /\ PyIn(<<"]">>, line)
        THEN LET start == Find(line, <<"[">>) + 1
                 end == Find(line, <<"]">>)
             IN  IF start > 0 /\ end > start
                 THEN [raised |-> FALSE, titles |-> KeepTitle(Strip(Slice(line, start, end)))]
                 ELSE [raised |-> FALSE, titles |-> <<>>]
        ELSE IF \E p \in NumberedPrefixes : StartsWith(line, p)
        THEN LET parts == SplitOnce(line, <<".", " ">>)
             IN  IF Len(parts) < 2
                 THEN [raised |-> TRUE, titles |-> <<>>]   \* IndexError
                 ELSE [raised |-> FALSE, titles |-> KeepTitle(Strip(parts[2]))]
        ELSE [raised |-> FALSE, titles |-> <<>>]

\* faulty variant of ExtractLines: a line's titles are put before the earlier ones
RECURSIVE ExtractLinesPrepend(_, _)
ExtractLinesPrepend(lines, acc) ==
    IF lines = <<>> THEN [raised |-> FALSE, titles |-> acc]
    ELSE LET r == ExtractLine(Head(lines))
         IN  IF r.raised THEN [raised |-> TRUE, titles |-> <<>>]
             ELSE ExtractLinesPrepend(Tail(lines), r.titles \o acc)

\* the loop over the lines: an exception in one line ends the call
RECURSIVE ExtractLines(_, _)
ExtractLines(lines, acc) ==
    IF lines = <<>> THEN [raised |-> FALSE, titles |-> acc]
    ELSE LET r == ExtractLine(Head(lines))
         IN  IF r.raised THEN [raised |-> TRUE, titles |-> <<>>]
             ELSE ExtractLines(Tail(lines), acc \o r.titles)

extract_problems_from_markdown(text) ==
    ExtractLines(Split(text, <<"\n">>), <<>>)

(***************************************************************************)
(* normalize_difficulty                                                    *)
(***************************************************************************)
EASY == <<"e","a","s","y">>
MEDIUM == <<"m","e","d","i","u","m">>
HARD == <<"h","a","r","d">>

\* faulty variant of normalize_difficulty: .lower() left out
normalize_difficulty_no_lower(difficulty) ==
    LET d == Strip(difficulty)
    IN  IF d \in {EASY, <<"1">>} THEN EASY
        ELSE IF d \in {MEDIUM, <<"2">>} THEN MEDIUM
        ELSE IF d \in {HARD, <<"3">>} THEN HARD
        ELSE MEDIUM

normalize_difficulty(difficulty) ==
    LET d == Strip(Lower(difficulty))
    IN  IF d \in {EASY, <<"1">>} THEN EASY
        ELSE IF d \in {MEDIUM, <<"2">>} THEN MEDIUM
        ELSE IF d \in {HARD, <<"3">>} THEN HARD
        ELSE MEDIUM

(***************************************************************************)
(* process_leetcode_data                                                   *)
(*                                                                         *)
(* A problem is a function from the keys its dict holds to their values;   *)
(* company_mappings is a function from company names to lists of titles.   *)
(* list(enhanced_companies) has no defined order: the output field         *)
(* companies is kept as the set it is built from.                          *)
(***************************************************************************)
\* set(a_list)
ToSet(list) == {list[i] : i \in 1..Len(list)}

\* problem.get(key, default)
Get(problem, key, default) ==
    IF key \in DOMAIN problem THEN problem[key] ELSE default

\* faulty variant of TitleMatches: only the first of the two tests
TitleMatchesOneWay(title, mapped_problem) ==
    PyIn(Lower(title), Lower(mapped_problem))

\* the test of the inner loop, for one catalog title and one mapped title
TitleMatches(title, mapped_problem) ==
    \/ PyIn(Lower(title), Lower(mapped_problem))
    \/ PyIn(Lower(mapped_problem), Lower(title))

\* the companies the two loops over company_mappings.items() add
MappedCompanies(title, cm) ==
    {company \in DOMAIN cm :
        \E i \in 1..Len(cm[company]) : TitleMatches(title, cm[company][i])}

\* faulty variant of EnhancedCompanies: the set starts empty, not from the baseline
EnhancedCompaniesMappedOnly(problem, cm) ==
    MappedCompanies(problem["title"], cm)

\* enhanced_companies after the loops
EnhancedCompanies(problem, cm) ==
    ToSet(Get(problem, "companies", <<>>)) \cup MappedCompanies(problem["title"], cm)

\* the keys the loop body reads with problem[...]: a missing one is a KeyError
RequiredKeys == {"id", "title", "description", "difficulty", "topics"}
RaisesKeyError(problem) == ~(RequiredKeys \subseteq DOMAIN problem)

\* the dict literal of the loop body
ProcessedProblem(problem, cm) ==
    [ id |-> problem["id"],
      title |-> problem["title"],
      description |-> problem["description"],
      difficulty |-> normalize_difficulty(problem["difficulty"]),
      topics |-> IF problem["topics"].kind = "list" THEN problem["topics"]
                 ELSE [kind |-> "list", val |-> <<problem["topics"].val>>],
      companies |-> EnhancedCompanies(problem, cm),
      examples |-> Get(problem, "examples", <<>>),
      constraints |-> Get(problem, "constraints", <<>>),
      leetcode_id |-> problem["id"],
      premium |-> FALSE,
      acceptance_rate |-> 0 ]

\* faulty variant of process_leetcode_data: the try is inside the loop, so a
\* record that raises is left out and the others are returned
process_leetcode_data_skips_bad(probs, cm) ==
    LET good == SelectSeq(probs, LAMBDA p : ~RaisesKeyError(p))
    IN  [none |-> FALSE, list |-> [i \in 1..Len(good) |-> ProcessedProblem(good[i], cm)]]

\* the value returned: the list, or None when any iteration raised
None == [none |-> TRUE, list |-> <<>>]
process_leetcode_data(probs, cm) ==
    IF \E i \in 1..Len(probs) : RaisesKeyError(probs[i])
    THEN None
    ELSE [none |-> FALSE, list |-> [i \in 1..Len(probs) |-> ProcessedProblem(probs[i], cm)]]

\* `not value` for a value that is None or a list
Falsy(value) == value.none \/ value.list = <<>>

(***************************************************************************)
(* classify_problem_by_company                                             *)
(***************************************************************************)
\* the test of the inner loop
ClassifyMatches(problem_title, problem) ==
    \/ PyIn(Lower(problem_title), Lower(problem))
    \/ PyIn(Lower(problem), Lower(problem_title))

\* faulty variant of ClassifyInner: no break after the append
RECURSIVE ClassifyInnerNoBreak(_, _, _)
ClassifyInnerNoBreak(problem_title, company, titles) ==
    IF titles = <<>> THEN <<>>
    ELSE IF ClassifyMatches(problem_title, Head(titles))
    THEN <<company>> \o ClassifyInnerNoBreak(problem_title, company, Tail(titles))
    ELSE ClassifyInnerNoBreak(problem_title, company, Tail(titles))

\* the inner loop over one company's titles: what it appends to companies
RECURSIVE ClassifyInner(_, _, _)
ClassifyInner(problem_title, company, titles) ==
    IF titles = <<>> THEN <<>>
    ELSE IF ClassifyMatches(problem_title, Head(titles))
    THEN <<company>>                                        \* append, break
    ELSE ClassifyInner(problem_title, company, Tail(titles))

\* the outer loop, over company_mappings.items() in the order `order`
RECURSIVE ClassifyOuter(_, _, _)
ClassifyOuter(problem_title, cm, order) ==
    IF order = <<>> THEN <<>>
    ELSE ClassifyInner(problem_title, Head(order), cm[Head(order)])
         \o ClassifyOuter(problem_title, cm, Tail(order))

\* the orders in which a dict can hold its keys: each key once
ItemOrders(d) ==
    {o \in [1..Cardinality(DOMAIN d) -> DOMAIN d] :
        \A i, j \in 1..Cardinality(DOMAIN d) : i # j => o[i] # o[j]}

\* str(row.get('title', '')), the titles being str
classify_problem_by_company(row, cm, order) ==
    ClassifyOuter(Get(row, "title", <<>>), cm, order)

(***************************************************************************)
(* The values the model draws its inputs from.                             *)
(***************************************************************************)
Acme == <<"A","c","m","e">>
BigCo == <<"B","i","g"," ","C","o">>
Zen == <<"Z","e","n">>

EmptyDict == [c \in {} |-> <<>>]

\* catalog records: the shape of the entries of the literal in
\* create_sample_leetcode_problems (every key present, topics a list)
Record(id, title, difficulty, companies, nExamples, nConstraints) ==
    [ id |-> id,
      title |-> title,
      description |-> "description",
      difficulty |-> difficulty,
      topics |-> [kind |-> "list", val |-> <<"Array">>],
      companies |-> companies,
      examples |-> [i \in 1..nExamples |-> [input |-> i, output |-> i]],
      constraints |-> [i \in 1..nConstraints |-> i] ]

\* a dict without one of its keys
Without(problem, key) == [k \in DOMAIN problem \ {key} |-> problem[k]]

\* the catalog of create_sample_leetcode_problems, reduced to two records
SampleCatalog ==
    << Record(1, <<"a","b">>, <<"E","a","s","y">>, <<Acme, Zen>>, 1, 3),
       Record(3, <<"c","d","e","f">>, <<"M","e","d","i","u","m">>, <<Zen>>, 1, 2) >>

\* the remote listing: file_info entries (type, name)
FileInfos ==
    { [type |-> "file", name |-> <<"a","c","m","e",".","m","d">>],
      [type |-> "file", name |-> <<"b","i","g","_","c","o",".","m","d">>],
      [type |-> "file", name |-> <<"R","E","A","D","M","E",".","m","d">>],
      [type |-> "file", name |-> <<"n","o","t","e","s",".","t","x","t">>],
      [type |-> "dir",  name |-> <<"o","l","d",".","m","d">>] }

RECURSIVE SeqsUpTo(_, _)
SeqsUpTo(S, n) ==
    IF n = 0 THEN {<<>>}
    ELSE LET shorter == SeqsUpTo(S, n - 1)
         IN  shorter \cup {Append(q, x) : q \in shorter, x \in S}

Listings == SeqsUpTo(FileInfos, MaxFiles)

\* the text of a fetched company file
FileTexts ==
    { <<>>,
      <<"-"," ","[","x","A","B","y","]","(","u",")">>,
      <<"1","."," ","c","d","e","f","\n","4","."," ","a","b","c","d">> }

(***************************************************************************)
(* download_company_mappings                                               *)
(***************************************************************************)
\* file_info['name'].replace('.md', '').replace('_', ' ').title()
CompanyName(name) ==
    StrTitle(Replace(Replace(name, <<".","m","d">>, <<>>), <<"_">>, <<" ">>))

ExcludedNames == { <<"r","e","a","d","m","e">>, <<"l","i","c","e","n","s","e">> }

\* the entry passes the type/extension test and the README/LICENSE test
IsCompanyFile(file_info) ==
    /\ file_info.type = "file"
    /\ EndsWith(file_info.name, <<".","m","d">>)
    /\ Lower(CompanyName(file_info.name)) \notin ExcludedNames

\* company_mappings[company_name] = problems
DictSet(d, key, value) ==
    [k \in DOMAIN d \cup {key} |-> IF k = key THEN value ELSE d[k]]

InLoop == pc = "files" /\ file_idx <= Len(listing.files)

\* the except branch: print the error, return {}
ReturnEmpty ==
    /\ mappings' = EmptyDict
    /\ pc' = "process"

\* faulty variant of ListingFails: the exception escapes download_company_mappings
ListingFailsPropagates ==
    /\ pc = "download"
    /\ listing' = [status |-> "failed", files |-> <<>>]
    /\ exit_code' = 1
    /\ pc' = "exited"
    /\ UNCHANGED <<problems, file_idx, company_mappings, mappings, processed_problems,
                   output_file, summary_done, banner, content, extracted,
                   classified>>

\* requests.get(github_api_url) raises, or raise_for_status() does
ListingFails ==
    /\ pc = "download"
    /\ listing' = [status |-> "failed", files |-> <<>>]
    /\ ReturnEmpty
    /\ UNCHANGED <<problems, file_idx, company_mappings, processed_problems,
                   output_file, summary_done, banner, exit_code, content, extracted,
                   classified>>

\* the listing request succeeds: files = response.json()
ListingSucceeds ==
    /\ pc = "download"
    /\ \E files \in Listings : listing' = [status |-> "ok", files |-> files]
    /\ file_idx' = 1
    /\ company_mappings' = EmptyDict
    /\ pc' = "files"
    /\ UNCHANGED <<problems, mappings, processed_problems, output_file,
                   summary_done, banner, exit_code, content, extracted,
                   classified>>

\* an entry that is no company file: the if fails, or continue
SkipEntry ==
    /\ InLoop
    /\ ~IsCompanyFile(listing.files[file_idx])
    /\ file_idx' = file_idx + 1
    /\ UNCHANGED <<pc, problems, listing, company_mappings, mappings,
                   processed_problems, output_file, summary_done, banner,
                   exit_code, content, extracted,
                   classified>>

\* requests.get(file_info['download_url']) raises: caught by the one except
FetchRaises ==
    /\ InLoop
    /\ IsCompanyFile(listing.files[file_idx])
    /\ ReturnEmpty
    /\ UNCHANGED <<problems, listing, file_idx, company_mappings,
                   processed_problems, output_file, summary_done, banner,
                   exit_code, content, extracted,
                   classified>>

\* the content request answers with a status other than 200
FetchNot200 ==
    /\ InLoop
    /\ IsCompanyFile(listing.files[file_idx])
    /\ file_idx' = file_idx + 1
    /\ UNCHANGED <<pc, problems, listing, company_mappings, mappings,
                   processed_problems, output_file, summary_done, banner,
                   exit_code, content, extracted,
                   classified>>

\* the content request answers 200: extract, record the company if any title
Fetch200 ==
    /\ InLoop
    /\ IsCompanyFile(listing.files[file_idx])
    /\ \E text \in FileTexts :
        LET r == extract_problems_from_markdown(text)
            company_name == CompanyName(listing.files[file_idx].name)
        IN  /\ content' = text
            /\ extracted' = r
            /\ IF r.raised
               THEN /\ ReturnEmpty
                    /\ UNCHANGED <<file_idx, company_mappings>>
               ELSE /\ company_mappings' =
                          IF r.titles # <<>>
                          THEN DictSet(company_mappings, company_name, r.titles)
                          ELSE company_mappings
                    /\ file_idx' = file_idx + 1
                    /\ UNCHANGED <<pc, mappings>>
    /\ UNCHANGED <<problems, listing, processed_problems, output_file,
                   summary_done, banner, exit_code,
                   classified>>

\* the loop is over: return company_mappings
LoopEnds ==
    /\ pc = "files"
    /\ file_idx > Len(listing.files)
    /\ mappings' = company_mappings
    /\ pc' = "process"
    /\ UNCHANGED <<problems, listing, file_idx, company_mappings,
                   processed_problems, output_file, summary_done, banner,
                   exit_code, content, extracted,
                   classified>>

(***************************************************************************)
(* main                                                                    *)
(***************************************************************************)
\* sys.exit(1)
Exit1 ==
    /\ exit_code' = 1
    /\ pc' = "exited"

\* problems = create_sample_leetcode_problems()
CreateCatalog ==
    /\ pc = "start"
    /\ problems' = SampleCatalog
    /\ pc' = "created"
    /\ UNCHANGED <<listing, file_idx, company_mappings, mappings,
                   processed_problems, output_file, summary_done, banner,
                   exit_code, content, extracted,
                   classified>>

\* if not problems: sys.exit(1)
CheckCatalog ==
    /\ pc = "created"
    /\ IF problems = <<>>
       THEN Exit1
       ELSE pc' = "download" /\ UNCHANGED exit_code
    /\ UNCHANGED <<problems, listing, file_idx, company_mappings, mappings,
                   processed_problems, output_file, summary_done, banner,
                   content, extracted,
                   classified>>

\* processed_problems = process_leetcode_data(...); if not processed_problems: sys.exit(1)
ProcessStage ==
    /\ pc = "process"
    /\ LET r == process_leetcode_data(problems, mappings)
       IN  /\ processed_problems' = r
           /\ IF Falsy(r)
              THEN Exit1
              ELSE pc' = "save" /\ UNCHANGED exit_code
    /\ UNCHANGED <<problems, listing, file_idx, company_mappings, mappings,
                   output_file, summary_done, banner, content, extracted,
                   classified>>

\* save_processed_data returns True: the file holds the dumped list
SaveSucceeds ==
    /\ pc = "save"
    /\ output_file' = [state |-> "written", data |-> processed_problems.list]
    /\ pc' = "summary"
    /\ UNCHANGED <<problems, listing, file_idx, company_mappings, mappings,
                   processed_problems, summary_done, banner, exit_code,
                   content, extracted,
                   classified>>

\* faulty variant of SaveFails: main ignores the False that save_processed_data returns
SaveFailsIgnored ==
    /\ pc = "save"
    /\ \E st \in {"absent", "partial"} : output_file' = [state |-> st, data |-> <<>>]
    /\ pc' = "summary"
    /\ UNCHANGED <<problems, listing, file_idx, company_mappings, mappings,
                   processed_problems, summary_done, banner, exit_code,
                   content, extracted,
                   classified>>

\* open() or json.dump() raises: save_processed_data returns False. The file
\* is absent when open() failed and truncated or partial when the dump did.
SaveFails ==
    /\ pc = "save"
    /\ \E st \in {"absent", "partial"} : output_file' = [state |-> st, data |-> <<>>]
    /\ Exit1
    /\ UNCHANGED <<problems, listing, file_idx, company_mappings, mappings,
                   processed_problems, summary_done, banner, content, extracted,
                   classified>>

\* generate_summary(processed_problems)
GenerateSummary ==
    /\ pc = "summary"
    /\ summary_done' = TRUE
    /\ pc' = "banner"
    /\ UNCHANGED <<problems, listing, file_idx, company_mappings, mappings,
                   processed_problems, output_file, banner, exit_code,
                   content, extracted,
                   classified>>

\* the completion banner, then main returns: exit code 0
Banner ==
    /\ pc = "banner"
    /\ banner' = TRUE
    /\ exit_code' = 0
    /\ pc' = "exited"
    /\ UNCHANGED <<problems, listing, file_idx, company_mappings, mappings,
                   processed_problems, output_file, summary_done, content, extracted,
                   classified>>

NoFile == [state |-> "absent", data |-> <<>>]
NoListing == [status |-> "none", files |-> <<>>]
NoExtract == [raised |-> FALSE, titles |-> <<>>]
NotClassified == [done |-> FALSE, companies |-> <<>>]

\* the state before main() runs
Init ==
    /\ pc = "start"
    /\ problems = <<>>
    /\ listing = NoListing
    /\ file_idx = 1
    /\ company_mappings = EmptyDict
    /\ mappings = EmptyDict
    /\ processed_problems = None
    /\ output_file = NoFile
    /\ summary_done = FALSE
    /\ banner = FALSE
    /\ exit_code = -1
    /\ classified = NotClassified
    /\ content = <<>>
    /\ extracted = NoExtract

Download ==
    \/ ListingFails \/ ListingSucceeds \/ SkipEntry \/ FetchRaises
    \/ FetchNot200 \/ Fetch200 \/ LoopEnds

Next ==
    \/ CreateCatalog \/ CheckCatalog
    \/ Download
    \/ ProcessStage \/ SaveSucceeds \/ SaveFails \/ GenerateSummary \/ Banner

Spec == Init /\ [][Next]_vars

(***************************************************************************)
(* main from its first guard on, for any catalog the constructor could     *)
(* hand it: the empty list and a record with a missing key exercise the    *)
(* guards of lines 467 and 478, which the literal catalog never trips.     *)
(***************************************************************************)
Catalogs ==
    { <<>>,
      SampleCatalog,
      <<SampleCatalog[1]>>,
      <<SampleCatalog[1], Without(SampleCatalog[2], "title")>> }

InitAnyCatalog ==
    /\ pc = "created"
    /\ problems \in Catalogs
    /\ listing = NoListing
    /\ file_idx = 1
    /\ company_mappings = EmptyDict
    /\ mappings = EmptyDict
    /\ processed_problems = None
    /\ output_file = NoFile
    /\ summary_done = FALSE
    /\ banner = FALSE
    /\ exit_code = -1
    /\ classified = NotClassified
    /\ content = <<>>
    /\ extracted = NoExtract

NextAnyCatalog ==
    \/ CheckCatalog
    \/ Download
    \/ ProcessStage \/ SaveSucceeds \/ SaveFails \/ GenerateSummary \/ Banner

SpecAnyCatalog == InitAnyCatalog /\ [][NextAnyCatalog]_vars

(***************************************************************************)
(* extract_problems_from_markdown as a function of its text.               *)
(***************************************************************************)
LinePrefixes ==
    NumberedPrefixes \cup
    { <<"-"," ","[">>, <<"*"," ","[">>, <<"1",".">>, <<"-"," ">>, <<>>,
      <<" ","2","."," ">> }

LineBodies ==
    { <<"a","b","c","d">>,
      <<"a","b","c">>,
      <<"a","b","c","d","]","(","u",")">>,
      <<"]","a","b","[","c","d">>,
      <<"[","a","b","c","d","]","(","u",")">>,
      <<"a","b","."," ","c","d","e","f">>,
      <<"[","a","b","c","d">>,
      <<" ","a","b","c","d","e","\t">> }

SingleLines == {p \o b : p \in LinePrefixes, b \in LineBodies}

FewLines ==
    { <<"-"," ","[","a","b","c","d","]","(","u",")">>,
      <<"1","."," ","e","f","g","h">>,
      <<"4","."," ","i","j","k","l">>,
      <<"x","y","z">>,
      <<>>,
      <<"2","."," ","[","m","n","o","p","]">> }

\* '\n'.join(lines)
RECURSIVE Join(_)
Join(lines) ==
    IF lines = <<>> THEN <<>>
    ELSE IF Len(lines) = 1 THEN lines[1]
    ELSE lines[1] \o <<"\n">> \o Join(Tail(lines))

ExtractInputs ==
    SingleLines \cup {Join(ls) : ls \in SeqsUpTo(FewLines, MaxLines)}

InitExtract ==
    /\ pc = "extract"
    /\ content \in ExtractInputs
    /\ extracted = NoExtract
    /\ problems = <<>>
    /\ listing = NoListing
    /\ file_idx = 1
    /\ company_mappings = EmptyDict
    /\ mappings = EmptyDict
    /\ processed_problems = None
    /\ output_file = NoFile
    /\ summary_done = FALSE
    /\ banner = FALSE
    /\ exit_code = -1
    /\ classified = NotClassified

\* problems = extract_problems_from_markdown(content)
ExtractCall ==
    /\ pc = "extract"
    /\ extracted' = extract_problems_from_markdown(content)
    /\ pc' = "extracted"
    /\ UNCHANGED <<problems, listing, file_idx, company_mappings, mappings,
                   processed_problems, output_file, summary_done, banner,
                   exit_code, content,
                   classified>>

SpecExtract == InitExtract /\ [][ExtractCall]_vars

(***************************************************************************)
(* process_leetcode_data as a function of its two arguments (main's call   *)
(* of line 477 with any problems and any company_mappings).                *)
(***************************************************************************)
TitleInputs ==
    { <<"a","b">>, <<"x","A","B","y">>, <<"B">>, <<"c","d">> }

CandLists == SeqsUpTo(TitleInputs, MaxCands) \ {<<>>}

MappingInputs ==
    UNION { [S -> CandLists] : S \in SUBSET {Acme, BigCo} }

DifficultyInputs ==
    { <<"E","a","s","y">>, <<"e","a","s","y">>, <<"1">>,
      <<"M","e","d","i","u","m">>, <<"2">>,
      <<"H","A","R","D">>, <<"h","a","r","d">>, <<"3">>,
      <<" ","h","a","r","d","\n">>, <<" ","1">>,
      <<"I","m","p","o","s","s","i","b","l","e">>, <<"4">>, <<>> }

BaseRecord == Record(1, <<"a","b">>, <<"E","a","s","y">>, <<Zen>>, 1, 1)

\* records for the company set: title, baseline companies (or no such key)
EnrichRecords ==
    { [BaseRecord EXCEPT !.title = t, !.companies = c] :
        t \in TitleInputs, c \in {<<Zen>>, <<Acme, Zen, Acme>>} }
    \cup { Without([BaseRecord EXCEPT !.title = t], "companies") : t \in TitleInputs }

\* records for the normalised fields: difficulty, examples, constraints
NormalRecords ==
    { Record(1, <<"a","b">>, d, <<Zen>>, ne, nc) :
        d \in DifficultyInputs, ne \in 0..MaxExamples, nc \in 0..MaxConstraints }

\* records with a key missing, or topics a single str
OddRecords ==
    { Without(BaseRecord, k) : k \in DOMAIN BaseRecord }
    \cup { [BaseRecord EXCEPT !.topics = [kind |-> "str", val |-> "Array"]] }

ProcessInputs ==
    { <<(<<r>>), cm>> : r \in EnrichRecords, cm \in MappingInputs }
    \cup { <<(<<r>>), DictSet(EmptyDict, BigCo, <<(<<"x","A","B","y">>)>>)>> :
             r \in NormalRecords \cup OddRecords }
    \cup { <<(<<>>), EmptyDict>>,
           <<(<<BaseRecord, Without(BaseRecord, "id")>>), EmptyDict>> }

InitProcess ==
    /\ pc = "process"
    /\ \E in \in ProcessInputs : problems = in[1] /\ mappings = in[2]
    /\ listing = NoListing
    /\ file_idx = 1
    /\ company_mappings = EmptyDict
    /\ processed_problems = None
    /\ output_file = NoFile
    /\ summary_done = FALSE
    /\ banner = FALSE
    /\ exit_code = -1
    /\ classified = NotClassified
    /\ content = <<>>
    /\ extracted = NoExtract

SpecProcess == InitProcess /\ [][ProcessStage]_vars

(***************************************************************************)
(* Properties.                                                             *)
(***************************************************************************)
\* download_company_mappings has returned to main
DownloadReturned == pc \in {"process", "save", "summary", "banner", "exited"}

\* process_leetcode_data has returned a list
ProcessReturnedList ==
    /\ pc \in {"save", "summary", "banner", "exited"}
    /\ ~processed_problems.none

\* the baseline company set of a catalog record
Baseline(problem) ==
    IF "companies" \in DOMAIN problem
    THEN {problem["companies"][j] : j \in 1..Len(problem["companies"])}
    ELSE {}

\* C1: once the listing request has succeeded, a failed fetch of one company
\* file skips only that company: every company recorded from the earlier
\* files is in the returned mapping with its titles, and no company file
\* listed after the failed one is left unfetched.
C1_FailedFetchSkipsOnlyThatCompany ==
    (DownloadReturned /\ listing.status = "ok") =>
        /\ \A c \in DOMAIN company_mappings :
              c \in DOMAIN mappings /\ mappings[c] = company_mappings[c]
        /\ \A j \in (file_idx + 1)..Len(listing.files) :
              ~IsCompanyFile(listing.files[j])

\* C2 as stated: if the listing request fails, the mapping returned is
\* empty and the run completes: every output record has exactly its baseline
\* companies, the output file is written, the banner is printed and the exit
\* code is zero.
C2_ListingFailureRunCompletes ==
    listing.status = "failed" =>
        /\ mappings = EmptyDict
        /\ pc = "exited" =>
              /\ exit_code = 0
              /\ banner
              /\ output_file.state = "written"
              /\ Len(output_file.data) = Len(problems)
              /\ \A i \in 1..Len(problems) :
                    output_file.data[i].companies = Baseline(problems[i])

\* C2 amended: if the listing request fails, the mapping returned is empty,
\* process_leetcode_data returns every catalog record with exactly its
\* baseline companies, and the run ends either with that list written, the
\* banner printed and exit code zero, or, when writing the file fails, with
\* exit code 1, no banner and no complete file.
C2_ListingFailureDegrades ==
    listing.status = "failed" =>
        /\ mappings = EmptyDict
        /\ pc \in {"save", "summary", "banner", "exited"} =>
              /\ ~processed_problems.none
              /\ Len(processed_problems.list) = Len(problems)
              /\ \A i \in 1..Len(problems) :
                    processed_problems.list[i].companies = Baseline(problems[i])
        /\ pc = "exited" =>
              \/ /\ exit_code = 0
                 /\ banner
                 /\ output_file = [state |-> "written", data |-> processed_problems.list]
              \/ /\ exit_code = 1
                 /\ ~banner
                 /\ output_file.state \in {"absent", "partial"}

C2_Witness ==
    /\ listing.status = "failed"
    /\ pc = "exited"
    /\ exit_code = 0
    /\ banner
    /\ output_file.state = "written"

\* C3: every record process_leetcode_data returns has at most 3 examples and
\* at most 5 constraints, whatever the input record holds.
C3_ExamplesAndConstraintsCapped ==
    ProcessReturnedList =>
        \A i \in 1..Len(processed_problems.list) :
            /\ Len(processed_problems.list[i].examples) <= 3
            /\ Len(processed_problems.list[i].constraints) <= 5

\* C4: the company set process_leetcode_data outputs for a record is a
\* superset of the record's baseline company set.
C4_EnrichmentMonotonic ==
    ProcessReturnedList =>
        /\ Len(processed_problems.list) = Len(problems)
        /\ \A i \in 1..Len(problems) :
              Baseline(problems[i]) \subseteq processed_problems.list[i].companies

C4_Witness ==
    /\ ProcessReturnedList
    /\ \E i \in 1..Len(problems) :
          /\ Baseline(problems[i]) # {}
          /\ processed_problems.list[i].companies \ Baseline(problems[i]) # {}

\* two characters that lower-case to the same character
SameFolded(c, d) ==
    c = d \/ \E i \in 1..26 : {c, d} = {UpperLetters[i], LowerLetters[i]}

\* a occurs in b as a contiguous run, case ignored
OccursIn(a, b) ==
    \E k \in 0..(Len(b) - Len(a)) : \A m \in 1..Len(a) : SameFolded(a[m], b[k + m])

\* C5: a company outside the record's baseline is in the output company set
\* exactly when one of its candidate titles contains the catalog title or is
\* contained in it, case ignored; and the test gives the same answer with
\* the catalog title and the candidate swapped.
C5_AttachedIffSubstringEitherWay ==
    ProcessReturnedList =>
        \A i \in 1..Len(problems) :
            /\ \A c \in (DOMAIN mappings \cup processed_problems.list[i].companies)
                          \ Baseline(problems[i]) :
                  c \in processed_problems.list[i].companies
                  <=> /\ c \in DOMAIN mappings
                      /\ \E j \in 1..Len(mappings[c]) :
                            \/ OccursIn(problems[i].title, mappings[c][j])
                            \/ OccursIn(mappings[c][j], problems[i].title)
            /\ \A c \in DOMAIN mappings : \A j \in 1..Len(mappings[c]) :
                  TitleMatches(problems[i].title, mappings[c][j])
                  = TitleMatches(mappings[c][j], problems[i].title)

\* a company attached only because its candidate is inside the catalog title
C5_Witness ==
    /\ ProcessReturnedList
    /\ \E i \in 1..Len(problems) :
          \E c \in processed_problems.list[i].companies \ Baseline(problems[i]) :
              \A j \in 1..Len(mappings[c]) :
                  /\ ~OccursIn(problems[i].title, mappings[c][j])
                  /\ OccursIn(mappings[c][j], problems[i].title)

Digits1to9 == {"1","2","3","4","5","6","7","8","9"}

\* the text is one line 'k. T', T free of brackets and of surrounding blanks
IsNumberedLine(text, digits) ==
    /\ Len(text) > 3
    /\ text[1] \in digits /\ text[2] = "." /\ text[3] = " "
    /\ \A i \in 1..Len(text) : text[i] # "\n"
    /\ text[4] \notin Whitespace /\ text[Len(text)] \notin Whitespace

\* C6: a line 'k. T' whose remainder T has no brackets and is longer than 3
\* characters yields the title T, for every digit k from 1 to 9.
C6_NumberedPrefixes1to9 ==
    ( /\ pc = "extracted"
      /\ IsNumberedLine(content, Digits1to9)
      /\ \A i \in 1..Len(content) : content[i] \notin {"[", "]"}
      /\ Len(content) - 3 > 3 )
    => extracted = [raised |-> FALSE, titles |-> <<SubSeq(content, 4, Len(content))>>]

\* C7: a line that starts with a numbered prefix yields the remainder after
\* the first '. ' separator when that is longer than 3 characters, also when
\* the line contains '[' and ']' (stated for the prefixes 1 to 3, which the
\* candidate test accepts).
C7_NumberedLineYieldsRemainder ==
    ( /\ pc = "extracted"
      /\ IsNumberedLine(content, {"1","2","3"}) )
    => extracted =
         [raised |-> FALSE,
          titles |-> IF Len(content) - 3 > 3
                     THEN <<SubSeq(content, 4, Len(content))>> ELSE <<>>]

\* core is text without its leading and trailing whitespace
IsTrimOf(core, text) ==
    \E lo \in 1..(Len(text) + 1) : \E hi \in 0..Len(text) :
        /\ core = SubSeq(text, lo, hi)
        /\ \A i \in 1..Len(text) : (i < lo \/ i > hi) => text[i] \in Whitespace
        /\ core # <<>> => (core[1] \notin Whitespace /\ core[Len(core)] \notin Whitespace)

\* a and b are the same string, case ignored
EqualFolded(a, b) ==
    Len(a) = Len(b) /\ \A m \in 1..Len(a) : SameFolded(a[m], b[m])

\* the difficulty the rule gives for a string compared as `core`
DifficultyRule(core) ==
    IF EqualFolded(core, EASY) \/ core = <<"1">> THEN EASY
    ELSE IF EqualFolded(core, MEDIUM) \/ core = <<"2">> THEN MEDIUM
    ELSE IF EqualFolded(core, HARD) \/ core = <<"3">> THEN HARD
    ELSE MEDIUM

\* C8 as stated: the output difficulty is easy for 'easy' or '1', medium for
\* 'medium' or '2', hard for 'hard' or '3', case ignored, and medium for
\* every other string.
C8_DifficultyByCaseInsensitiveMatch ==
    ProcessReturnedList =>
        \A i \in 1..Len(problems) :
            processed_problems.list[i].difficulty = DifficultyRule(problems[i].difficulty)

\* C8 amended: the same rule applied to the input with its leading and
\* trailing whitespace removed; the output difficulty is always one of easy,
\* medium, hard.
C8_DifficultyByTrimmedMatch ==
    ProcessReturnedList =>
        \A i \in 1..Len(problems) :
            /\ processed_problems.list[i].difficulty \in {EASY, MEDIUM, HARD}
            /\ \A lo \in 1..(Len(problems[i].difficulty) + 1) :
               \A hi \in 0..Len(problems[i].difficulty) :
                  LET core == SubSeq(problems[i].difficulty, lo, hi)
                  IN  IsTrimOf(core, problems[i].difficulty)
                      => processed_problems.list[i].difficulty = DifficultyRule(core)

\* an input with surrounding whitespace that is normalised to hard
C8_Witness ==
    /\ ProcessReturnedList
    /\ \E i \in 1..Len(problems) :
          /\ problems[i].difficulty # <<>>
          /\ problems[i].difficulty[1] \in Whitespace
          /\ processed_problems.list[i].difficulty = HARD

\* the three failures main exits on, read at the end of the run
CatalogFailed == problems = <<>>
ProcessingFailed == ~CatalogFailed /\ Falsy(processed_problems)
WriteFailed == ~CatalogFailed /\ ~ProcessingFailed /\ output_file.state # "written"

\* C9: main ends in one of two ways: with exit code 1 and no banner exactly
\* when the catalog is empty, the processing stage failed or the write
\* failed, and otherwise with the summary and the banner printed and exit
\* code 0, whatever the download did; before its end there is no exit code.
C9_ExitCodes ==
    /\ pc # "exited" => (exit_code = -1 /\ ~banner)
    /\ pc = "exited" =>
          \/ /\ exit_code = 1 /\ ~banner
             /\ (CatalogFailed \/ ProcessingFailed \/ WriteFailed)
          \/ /\ exit_code = 0 /\ banner /\ summary_done
             /\ ~(CatalogFailed \/ ProcessingFailed \/ WriteFailed)

\* exit code 0 although the download failed after the listing
C9_Witness ==
    /\ pc = "exited"
    /\ exit_code = 0
    /\ listing.status = "ok"
    /\ file_idx <= Len(listing.files)

\* the titles occur in the text in their order, each on a later line than
\* the one before
RECURSIVE OnSuccessiveLines(_, _)
OnSuccessiveLines(titles, text) ==
    IF titles = <<>> THEN TRUE
    ELSE \E p \in 1..Len(text) :
            LET e == p + Len(titles[1]) - 1
            IN  /\ e <= Len(text)
                /\ SubSeq(text, p, e) = titles[1]
                /\ \/ Len(titles) = 1
                   \/ \E q \in (e + 1)..Len(text) :
                         /\ text[q] = "\n"
                         /\ OnSuccessiveLines(Tail(titles), SubSeq(text, q + 1, Len(text)))

\* a one-line text that is malformed: a numbered marker with no space after
\* the dot, a bracket marker whose '[' is never closed, or a line whose
\* first ']' comes before its first '['
IsMalformedLine(text) ==
    /\ Len(text) > 3
    /\ \A i \in 1..Len(text) : text[i] # "\n"
    /\ \/ text[1] \in Digits1to9 /\ text[2] = "." /\ text[3] # " "
       \/ /\ text[1] \in {"-", "*"} /\ text[2] = " " /\ text[3] = "["
          /\ \A i \in 1..Len(text) : text[i] # "]"
       \/ \E i \in 1..Len(text) : \E j \in (i + 1)..Len(text) :
             /\ text[i] = "]" /\ text[j] = "["
             /\ \A k \in 1..(j - 1) : text[k] # "["

\* C10: extract_problems_from_markdown does not raise; it returns a list of
\* titles longer than 3 characters, in the order of their lines in the text;
\* the list is empty for the empty text and for a malformed line.
C10_ExtractNeverRaisesKeepsOrder ==
    pc = "extracted" =>
        /\ ~extracted.raised
        /\ \A i \in 1..Len(extracted.titles) : Len(extracted.titles[i]) > 3
        /\ OnSuccessiveLines(extracted.titles, content)
        /\ (content = <<>> \/ IsMalformedLine(content)) => extracted.titles = <<>>

\* two different titles out of a text of several lines
C10_Witness ==
    /\ pc = "extracted"
    /\ Len(extracted.titles) = 2
    /\ extracted.titles[1] # extracted.titles[2]

\* a catalog record that process_leetcode_data cannot process
LacksAKey(problem) ==
    \E k \in {"id", "title", "description", "difficulty", "topics"} : k \notin DOMAIN problem

\* C11: the stages of main run in a fixed order, each gated by the one before:
\* a file is written only after process_leetcode_data returned a non-empty
\* list holding every catalog record (none is written when one record
\* raises), the summary is generated only after the write succeeded, and the
\* banner only after the summary.
C11_StagesGated ==
    /\ pc \in {"download", "files"} => (problems # <<>> /\ processed_problems = None)
    /\ ~processed_problems.none => DownloadReturned
    /\ output_file # NoFile =>
          /\ pc \in {"summary", "banner", "exited"}
          /\ ~processed_problems.none
          /\ processed_problems.list # <<>>
          /\ Len(processed_problems.list) = Len(problems)
    /\ (\E i \in 1..Len(problems) : LacksAKey(problems[i])) => output_file = NoFile
    /\ output_file.state = "written" => output_file.data = processed_problems.list
    /\ summary_done => output_file.state = "written"
    /\ banner => summary_done

\* the run has ended on a catalog with a record that raises: nothing written
C11_Witness ==
    /\ pc = "exited"
    /\ exit_code = 1
    /\ \E i \in 1..Len(problems) : LacksAKey(problems[i])
    /\ \E i \in 1..Len(problems) : ~LacksAKey(problems[i])
    /\ output_file = NoFile
    /\ ~summary_done

(***************************************************************************)
(* classify_problem_by_company and process_leetcode_data on the same row   *)
(* and the same company_mappings.                                          *)
(***************************************************************************)
ClassifyInputs ==
    { <<(<<r>>), cm>> : r \in EnrichRecords \cup {Without(BaseRecord, "title")},
                        cm \in MappingInputs }

InitClassify ==
    /\ pc = "classify"
    /\ \E in \in ClassifyInputs : problems = in[1] /\ mappings = in[2]
    /\ listing = NoListing
    /\ file_idx = 1
    /\ company_mappings = EmptyDict
    /\ processed_problems = None
    /\ output_file = NoFile
    /\ summary_done = FALSE
    /\ banner = FALSE
    /\ exit_code = -1
    /\ classified = NotClassified
    /\ content = <<>>
    /\ extracted = NoExtract

\* companies = classify_problem_by_company(row, company_mappings), the dict
\* holding its items in any order
ClassifyCall ==
    /\ pc = "classify"
    /\ \E order \in ItemOrders(mappings) :
          classified' = [done |-> TRUE,
                         companies |-> classify_problem_by_company(problems[1], mappings, order)]
    /\ pc' = "process"
    /\ UNCHANGED <<problems, listing, file_idx, company_mappings, mappings,
                   processed_problems, output_file, summary_done, banner,
                   exit_code, content, extracted>>

NextClassify == ClassifyCall \/ ProcessStage

SpecClassify == InitClassify /\ [][NextClassify]_vars

\* C12: for the same title and company_mappings, the companies
\* classify_problem_by_company returns are, as a set, the companies
\* process_leetcode_data adds to the baseline (the whole output set when the
\* baseline is empty), and classify_problem_by_company lists no company twice.
C12_MatchersAgree ==
    (classified.done /\ ProcessReturnedList) =>
        LET found == {classified.companies[i] : i \in 1..Len(classified.companies)}
            out == processed_problems.list[1].companies
        IN  /\ found \cup Baseline(problems[1]) = out
            /\ found \subseteq DOMAIN mappings
            /\ Baseline(problems[1]) = {} => found = out
            /\ \A i, j \in 1..Len(classified.companies) :
                  i # j => classified.companies[i] # classified.companies[j]

\* an empty baseline, two companies found, one of them through a list whose
\* two titles both match
C12_Witness ==
    /\ classified.done
    /\ ProcessReturnedList
    /\ Baseline(problems[1]) = {}
    /\ Len(classified.companies) = 2
    /\ \E c \in DOMAIN mappings :
          /\ Len(mappings[c]) = 2
          /\ \A j \in 1..2 :
                \/ OccursIn(problems[1].title, mappings[c][j])
                \/ OccursIn(mappings[c][j], problems[1].title)

====
